---- MODULE Spec2Model ----
(***************************************************************************)
(* A model of the install pipeline of the package manager: the package set *)
(* and its closure walk (src/install/manager.rs), the machine-wide package *)
(* cache (src/install/cache.rs), the origin fetches (src/install/git.rs    *)
(* and install_registry_package) and the batch of concurrent install       *)
(* tasks spawned by InstallManager::install_packages.                      *)
(***************************************************************************)
EXTENDS Integers, Sequences, FiniteSets, TLC

(***************************************************************************)
(* Bounds of the model.                                                    *)
(***************************************************************************)
\* longest dependency list of a package, and of the manifest, in SpecClosure
MaxDeps == 2
\* number of install_packages runs of one behaviour of Spec
MaxRuns == 2
\* number of cache calls of one behaviour of SpecCache
MaxCalls == 3

(***************************************************************************)
(* Names, versions, cache keys.                                            *)
(***************************************************************************)
\* the names that have a package in the package set
Present == {"a", "b", "c"}
\* a name no package set of the model holds
Missing == "zz"
Names == Present \cup {Missing}
\* the version every package of the set declares, and another one
Declared == "v1"
Other == "v2"
Versions == {Declared, Other}
\* cache.rs:26, and the key of a tool of another version
CACHE_KEY == "spago-rust@cur"
OLD_KEY == "spago-rust@old"
Keys == {CACHE_KEY, OLD_KEY}

\* the variant of each package (registry/types.rs:60-67)
KindOf == [n \in Present |-> CASE n = "a" -> "Remote"
                               [] n = "b" -> "Registry"
                               [] OTHER -> "Local"]

Range(s) == {s[i] : i \in 1..Len(s)}

\* sequences without repetition over S, of length at most k
RECURSIVE DistinctSeqs(_, _)
DistinctSeqs(S, k) ==
    IF k = 0 THEN {<<>>}
    ELSE LET shorter == DistinctSeqs(S, k - 1)
             longest == {t \in shorter : Len(t) = k - 1}
         IN  shorter \cup
             UNION {{Append(t, x) : x \in S \ Range(t)} : t \in longest}

Package(n, deps) ==
    [name |-> n, kind |-> KindOf[n], version |-> Declared, dependencies |-> deps]

(***************************************************************************)
(* The program's state.                                                    *)
(***************************************************************************)
VARIABLES
    package_set,   \* PackageSet: name -> Package (registry/types.rs:5)
    direct,        \* config.package_dependencies(), a sequence of names
    closure,       \* outcome of the closure walk of install_packages
    spago_dir,     \* the install directory: name -> directory tree
    cache_dirs,    \* the cache root: cached_name -> directory tree
    index,         \* index.json: name -> CachedPackage
    tasks,         \* the spawned tasks, in the order they are awaited
    pc,            \* name -> position of that name's install task
    outcome,       \* name -> what the task returned
    loaded,        \* name -> the index the task's cache_package loaded
    awaited,       \* number of tasks install_packages has awaited
    result,        \* what install_packages returned
    fetches,       \* names fetched from their origin in the current run
    run,           \* number of the current install_packages run
    before,        \* the disk when the run began, and the fetches before it
    prev_ok,       \* the run before this one returned Ok
    workspace_root,\* config.is_workspace_root()
    op,            \* the last cache call made in SpecCache
    calls          \* number of cache calls made in SpecCache

vars == <<package_set, direct, closure, spago_dir, cache_dirs, index, tasks,
          pc, outcome, loaded, awaited, result, fetches, run, before,
          prev_ok, workspace_root, op, calls>>

(***************************************************************************)
(* Closure computation, manager.rs:196-222.                                *)
(***************************************************************************)
NoErr == <<>>
ErrNotFound(n) == <<"Package not found in package set", n>>

EmptyWalk == [all_packages |-> {}, processed |-> {}, err |-> NoErr,
              inserted |-> <<>>, visited |-> <<>>]

RECURSIVE collect_dependencies_recursive(_, _, _)
RECURSIVE CollectEach(_, _, _)

\* the loop over package.dependencies() of line 215; `?` stops at an error
CollectEach(deps, ps, st) ==
    IF deps = <<>> \/ st.err # NoErr THEN st
    ELSE CollectEach(Tail(deps), ps,
                     collect_dependencies_recursive(Head(deps), ps, st))

\* a walk that stops one level down: the names a package lists are
\* inserted, their own lists are not walked
CollectOneLevel(package_name, ps, st) ==
    IF package_name \in st.processed THEN st
    ELSE LET marked == [st EXCEPT !.processed = @ \cup {package_name},
                                  !.visited = Append(@, package_name)]
         IN  IF package_name \notin DOMAIN ps
             THEN [marked EXCEPT !.err = ErrNotFound(package_name)]
             ELSE LET deps == Range(ps[package_name].dependencies)
                  IN  IF deps \ DOMAIN ps # {}
                      THEN [marked EXCEPT
                              !.err = ErrNotFound(
                                  CHOOSE d \in deps \ DOMAIN ps : TRUE)]
                      ELSE [marked EXCEPT
                              !.all_packages = @ \cup deps \cup {package_name},
                              !.inserted = Append(@, package_name)]

\* the walk of cleanup.rs:87-112, which skips a name the set does not hold
CollectSkipAbsent(package_name, ps, st) ==
    IF package_name \in st.processed THEN st
    ELSE LET marked == [st EXCEPT !.processed = @ \cup {package_name},
                                  !.visited = Append(@, package_name)]
         IN  IF package_name \notin DOMAIN ps
             THEN marked
             ELSE LET below == CollectEach(ps[package_name].dependencies,
                                           ps, marked)
                  IN  [below EXCEPT
                         !.all_packages = @ \cup {package_name},
                         !.inserted = Append(@, package_name)]

\* a walk that inserts a name before it walks the name's dependencies
CollectInsertFirst(package_name, ps, st) ==
    IF package_name \in st.processed THEN st
    ELSE LET marked == [st EXCEPT !.processed = @ \cup {package_name},
                                  !.visited = Append(@, package_name)]
         IN  IF package_name \notin DOMAIN ps
             THEN [marked EXCEPT !.err = ErrNotFound(package_name)]
             ELSE CollectEach(ps[package_name].dependencies, ps,
                              [marked EXCEPT
                                 !.all_packages = @ \cup {package_name},
                                 !.inserted = Append(@, package_name)])

\* a walk that passes over a name only from its third visit on
CollectRevisitOnce(package_name, ps, st) ==
    IF Cardinality({i \in 1..Len(st.visited) :
                       st.visited[i] = package_name}) >= 2
    THEN st
    ELSE LET marked == [st EXCEPT !.processed = @ \cup {package_name},
                                  !.visited = Append(@, package_name)]
         IN  IF package_name \notin DOMAIN ps
             THEN [marked EXCEPT !.err = ErrNotFound(package_name)]
             ELSE LET below == CollectEach(ps[package_name].dependencies,
                                           ps, marked)
                  IN  IF below.err # NoErr THEN below
                      ELSE [below EXCEPT
                              !.all_packages = @ \cup {package_name},
                              !.inserted = Append(@, package_name)]

collect_dependencies_recursive(package_name, ps, st) ==
    IF package_name \in st.processed THEN st
    ELSE LET marked == [st EXCEPT !.processed = @ \cup {package_name},
                                  !.visited = Append(@, package_name)]
         IN  IF package_name \notin DOMAIN ps
             THEN [marked EXCEPT !.err = ErrNotFound(package_name)]
             ELSE LET below == CollectEach(ps[package_name].dependencies,
                                           ps, marked)
                  IN  IF below.err # NoErr THEN below
                      ELSE [below EXCEPT
                              !.all_packages = @ \cup {package_name},
                              !.inserted = Append(@, package_name)]

\* the loop of manager.rs:121-129 over the direct dependency names
CollectAll(names, ps) == CollectEach(names, ps, EmptyWalk)

(***************************************************************************)
(* Directory trees.  A tree maps the paths below a directory to the        *)
(* contents of the files there; a file system maps the directories that    *)
(* exist to their trees.                                                   *)
(***************************************************************************)
EmptyTree == [p \in {} |-> ""]

Exists(fs, path) == path \in DOMAIN fs

\* fs::remove_dir_all
remove_dir_all(fs, path) == [q \in DOMAIN fs \ {path} |-> fs[q]]

\* cache.rs:156-174: creates dst when it is missing, then copies every entry
\* of src over what dst holds; entries only dst has stay
copy_dir_all(src, fs, dst) ==
    LET old == IF Exists(fs, dst) THEN fs[dst] ELSE EmptyTree
        new == [p \in DOMAIN old \cup DOMAIN src |->
                   IF p \in DOMAIN src THEN src[p] ELSE old[p]]
    IN  [q \in DOMAIN fs \cup {dst} |-> IF q = dst THEN new ELSE fs[q]]

(***************************************************************************)
(* The global package cache, cache.rs.  The index file is absent, holds a  *)
(* serialised map, or holds text that does not parse.                      *)
(***************************************************************************)
EmptyIndex == [n \in {} |-> 0]
NoIndexFile == [kind |-> "none", map |-> EmptyIndex]
Garbage == [kind |-> "garbage", map |-> EmptyIndex]

\* cache.rs:46-56
load_index(file) == IF file.kind = "json" THEN file.map ELSE EmptyIndex

\* cache.rs:59-66
save_index(map) == [kind |-> "json", map |-> map]

\* a lookup that also asks for the running key
IsCachedSameKey(file, name, version) ==
    LET ix == load_index(file)
    IN  /\ name \in DOMAIN ix
        /\ ix[name].version = version
        /\ ix[name].key = CACHE_KEY

\* cache.rs:69-75
is_cached(file, name, version) ==
    LET ix == load_index(file)
    IN  name \in DOMAIN ix /\ ix[name].version = version

\* a lookup that forgets the key
GetCachedPathAnyKey(file, name, version) ==
    LET ix == load_index(file)
    IN  IF name \in DOMAIN ix /\ ix[name].version = version
        THEN {ix[name].cached_path}
        ELSE {}

\* cache.rs:78-84; an Option is the set of its values
get_cached_path(file, name, version) ==
    LET ix == load_index(file)
    IN  IF /\ name \in DOMAIN ix
           /\ ix[name].version = version
           /\ ix[name].key = CACHE_KEY
        THEN {ix[name].cached_path}
        ELSE {}

\* cache.rs:93-94: the directory of a (name, version) under the running key
CachedName(name, version) == <<name, version, CACHE_KEY>>

\* a copy over the earlier cached directory, which is not removed first
CacheCopyMerge(cd, name, version, src) ==
    copy_dir_all(src, cd, CachedName(name, version))

\* a copy that first removes every directory cached for the name
CacheCopyEvictName(cd, name, version, src) ==
    copy_dir_all(src, [q \in {x \in DOMAIN cd : x[1] # name} |-> cd[q]],
                 CachedName(name, version))

\* cache.rs:96-101: the copy of the source tree into the cache
CacheCopy(cd, name, version, src) ==
    LET cached_path == CachedName(name, version)
        cleared == IF Exists(cd, cached_path)
                   THEN remove_dir_all(cd, cached_path) ELSE cd
    IN  copy_dir_all(src, cleared, cached_path)

\* an insert that keeps the entry the name already has
IndexInsertIfAbsent(ix, name, version) ==
    [n \in DOMAIN ix \cup {name} |->
        IF n \in DOMAIN ix THEN ix[n]
        ELSE [name |-> name, version |-> version, key |-> CACHE_KEY,
              cached_path |-> CachedName(name, version)]]

\* cache.rs:105-114
IndexInsert(ix, name, version) ==
    [n \in DOMAIN ix \cup {name} |->
        IF n = name
        THEN [name |-> name, version |-> version, key |-> CACHE_KEY,
              cached_path |-> CachedName(name, version)]
        ELSE ix[n]]

\* a cache_package that leaves an index file it cannot parse as it is
CachePackageKeepsUnparsed(cd, file, name, version, src) ==
    [cache_dirs |-> CacheCopy(cd, name, version, src),
     index |-> IF file.kind = "garbage" THEN file
               ELSE save_index(IndexInsert(load_index(file), name, version)),
     ret |-> CachedName(name, version)]

\* cache.rs:87-118, run without interruption
cache_package(cd, file, name, version, src) ==
    [cache_dirs |-> CacheCopy(cd, name, version, src),
     index |-> save_index(IndexInsert(load_index(file), name, version)),
     ret |-> CachedName(name, version)]

\* what a copy_dir_all that fails part-way has written of src: nothing
\* beyond the created directory, or every entry but one (cache.rs:156-174)
PartialCopies(src) ==
    {[p \in K |-> src[p]] : K \in {{}, DOMAIN src \ {"src/Main"}}}

CacheFaults == {"remove", "copy", "save"}

ErrCache(fault) ==
    CASE fault = "remove" -> <<"Failed to remove existing cached package">>
      [] fault = "copy" -> <<"Failed to copy package to cache">>
      [] OTHER -> <<"Failed to write cache index">>

\* cache.rs:87-118 when one of its steps fails: the removal of line 97
\* (nothing is removed), the copy of line 100 (partial is what it wrote) or
\* the write of the index at line 116 (the file keeps its content); each
\* `?` returns at once
cache_package_failed(cd, file, name, version, src, fault, partial) ==
    LET cached_path == CachedName(name, version)
        cleared == IF Exists(cd, cached_path)
                   THEN remove_dir_all(cd, cached_path) ELSE cd
    IN  [cache_dirs |->
            CASE fault = "remove" -> cd
              [] fault = "copy" -> copy_dir_all(partial, cleared, cached_path)
              [] OTHER -> CacheCopy(cd, name, version, src),
         index |-> file,
         err |-> ErrCache(fault)]

ErrNotInCache(n, v) == <<"Package not found in cache", n, v>>
ErrIO(n) == <<"Failed to copy from cache", n>>

\* a copy over what the destination holds, without removing it first
CopyFromCacheMerge(sd, cd, file, name, version, dest) ==
    LET found == get_cached_path(file, name, version)
    IN  IF found = {}
        THEN [spago_dir |-> sd, err |-> ErrNotInCache(name, version)]
        ELSE LET cached_path == CHOOSE q \in found : TRUE
             IN  IF Exists(cd, cached_path)
                 THEN [spago_dir |-> copy_dir_all(cd[cached_path], sd, dest),
                       err |-> NoErr]
                 ELSE [spago_dir |-> copy_dir_all(EmptyTree, sd, dest),
                       err |-> ErrIO(name)]

\* a copy that removes the destination before it looks the package up
CopyFromCacheRemoveFirst(sd, cd, file, name, version, dest) ==
    LET found == get_cached_path(file, name, version)
        cleared == IF Exists(sd, dest) THEN remove_dir_all(sd, dest) ELSE sd
    IN  IF found = {}
        THEN [spago_dir |-> cleared, err |-> ErrNotInCache(name, version)]
        ELSE LET cached_path == CHOOSE q \in found : TRUE
             IN  IF Exists(cd, cached_path)
                 THEN [spago_dir |-> copy_dir_all(cd[cached_path], cleared, dest),
                       err |-> NoErr]
                 ELSE [spago_dir |-> copy_dir_all(EmptyTree, cleared, dest),
                       err |-> ErrIO(name)]

\* cache.rs:121-138
copy_from_cache(sd, cd, file, name, version, dest) ==
    LET found == get_cached_path(file, name, version)
    IN  IF found = {}
        THEN [spago_dir |-> sd, err |-> ErrNotInCache(name, version)]
        ELSE LET cached_path == CHOOSE q \in found : TRUE
                 cleared == IF Exists(sd, dest)
                            THEN remove_dir_all(sd, dest) ELSE sd
             IN  IF Exists(cd, cached_path)
                 THEN [spago_dir |-> copy_dir_all(cd[cached_path], cleared, dest),
                       err |-> NoErr]
                 \* read_dir of a missing source fails after dest was created
                 ELSE [spago_dir |-> copy_dir_all(EmptyTree, cleared, dest),
                       err |-> ErrIO(name)]

\* cache.rs:141-152: the index file lives in the cache root and goes with it
clear_all(cd, file) ==
    [cache_dirs |-> [q \in {} |-> EmptyTree], index |-> NoIndexFile]

(***************************************************************************)
(* What the origins ship, and what an installed tree looks like.           *)
(***************************************************************************)
\* the top-level entry of a path
Top(p) == IF p \in {"src/Main", "src/Gone"} THEN "src" ELSE p

\* the files of a package at version v; the other version has one more
SourceFiles(v) == IF v = Other THEN {"src/Main", "src/Gone"} ELSE {"src/Main"}

\* a clone whose HEAD is at h
GitTree(h) ==
    [p \in {".git", "README.md", "test"} \cup SourceFiles(h) |-> h]

\* the single top-level directory of the registry archive of version v
ArchiveTree(v) ==
    [p \in {"purs.json", "README.md", "test"} \cup SourceFiles(v) |-> v]

\* git.rs:97-103
should_keep(file_name) ==
    file_name \in {"src", "README.md", "readme.md", "README", "readme",
                   "spago.yaml"}

\* git.rs:86-115
prune_package(tree) ==
    [p \in {q \in DOMAIN tree : should_keep(Top(q))} |-> tree[p]]

\* manager.rs:362-370: the version purs.json states against the declared one
package_version_matches(package, tree) ==
    IF "purs.json" \notin DOMAIN tree
    THEN [err |-> <<"Failed to read purs.json file", package.name>>,
          matches |-> FALSE]
    ELSE [err |-> NoErr, matches |-> tree["purs.json"] = package.version]

\* the checked-out ref against the declared tag
git_version_matches(package, tree) ==
    [err |-> NoErr,
     matches |-> ".git" \in DOMAIN tree /\ tree[".git"] = package.version]

NoCall == [kind |-> "none"]

(***************************************************************************)
(* One install task, manager.rs:225-414.                                   *)
(***************************************************************************)
Pending == [kind |-> "pending", err |-> NoErr]
Nothing == [kind |-> "none", err |-> NoErr]
Installed == [kind |-> "installed", err |-> NoErr]
Failed(e) == [kind |-> "error", err |-> e]

version_matches(package, tree) ==
    IF package.kind = "Registry"
    THEN package_version_matches(package, tree)
    ELSE git_version_matches(package, tree)

\* a task that neither looks at the install dir nor at the cache
CheckAndCacheAlwaysFetch(package, sd, cd, file) ==
    [pc |-> "fetch", outcome |-> Pending, spago_dir |-> sd]

\* a task that never looks into the cache
CheckAndCacheSkipCache(package, sd, cd, file) ==
    LET name == package.name
        check == IF Exists(sd, name)
                 THEN version_matches(package, sd[name])
                 ELSE [err |-> NoErr, matches |-> FALSE]
    IN  IF check.err # NoErr
        THEN [pc |-> "done", outcome |-> Failed(check.err), spago_dir |-> sd]
        ELSE IF check.matches
        THEN [pc |-> "done", outcome |-> Nothing, spago_dir |-> sd]
        ELSE [pc |-> "fetch", outcome |-> Pending, spago_dir |-> sd]

\* a task without the early return of the already-installed check
CheckAndCacheNoEarlyReturn(package, sd, cd, file) ==
    LET name == package.name
        check == IF Exists(sd, name)
                 THEN version_matches(package, sd[name])
                 ELSE [err |-> NoErr, matches |-> FALSE]
        copied == copy_from_cache(sd, cd, file, name, package.version, name)
    IN  IF check.err # NoErr
        THEN [pc |-> "done", outcome |-> Failed(check.err), spago_dir |-> sd]
        ELSE IF is_cached(file, name, package.version)
        THEN [pc |-> "done",
              outcome |-> IF copied.err # NoErr THEN Failed(copied.err)
                          ELSE Installed,
              spago_dir |-> copied.spago_dir]
        ELSE [pc |-> "fetch", outcome |-> Pending, spago_dir |-> sd]

\* manager.rs:250-272 and 377-401: the already-installed check, then the
\* cache; gives the task's next position, its result and the install dir
CheckAndCache(package, sd, cd, file) ==
    LET name == package.name
        check == IF Exists(sd, name)
                 THEN version_matches(package, sd[name])
                 ELSE [err |-> NoErr, matches |-> FALSE]
        copied == copy_from_cache(sd, cd, file, name, package.version, name)
    IN  IF check.err # NoErr
        THEN [pc |-> "done", outcome |-> Failed(check.err), spago_dir |-> sd]
        ELSE IF check.matches
        THEN [pc |-> "done", outcome |-> Nothing, spago_dir |-> sd]
        ELSE IF is_cached(file, name, package.version)
        THEN [pc |-> "done",
              outcome |-> IF copied.err # NoErr THEN Failed(copied.err)
                          ELSE Installed,
              spago_dir |-> copied.spago_dir]
        ELSE [pc |-> "fetch", outcome |-> Pending, spago_dir |-> sd]

\* a task that treats a Local package like a fetched one
TaskStartLocalAsFetched(n) ==
    /\ pc[n] = "start"
    /\ IF n \notin DOMAIN package_set
       THEN /\ pc' = [pc EXCEPT ![n] = "done"]
            /\ outcome' = [outcome EXCEPT ![n] = Failed(ErrNotFound(n))]
            /\ UNCHANGED spago_dir
       ELSE LET r == CheckAndCache(package_set[n], spago_dir, cache_dirs,
                                   index)
            IN  /\ pc' = [pc EXCEPT ![n] = r.pc]
                /\ outcome' = [outcome EXCEPT ![n] = r.outcome]
                /\ spago_dir' = r.spago_dir
    /\ UNCHANGED <<package_set, direct, closure, cache_dirs, index, tasks,
                   loaded, awaited, result, fetches, run, before, prev_ok,
                   workspace_root, op, calls>>

\* manager.rs:225-243
TaskStart(n) ==
    /\ pc[n] = "start"
    /\ IF n \notin DOMAIN package_set
       THEN /\ pc' = [pc EXCEPT ![n] = "done"]
            /\ outcome' = [outcome EXCEPT ![n] = Failed(ErrNotFound(n))]
            /\ UNCHANGED spago_dir
       ELSE IF package_set[n].kind = "Local"
       THEN /\ pc' = [pc EXCEPT ![n] = "done"]
            /\ outcome' = [outcome EXCEPT ![n] = Nothing]
            /\ UNCHANGED spago_dir
       ELSE LET r == CheckAndCache(package_set[n], spago_dir, cache_dirs,
                                   index)
            IN  /\ pc' = [pc EXCEPT ![n] = r.pc]
                /\ outcome' = [outcome EXCEPT ![n] = r.outcome]
                /\ spago_dir' = r.spago_dir
    /\ UNCHANGED <<package_set, direct, closure, cache_dirs, index, tasks,
                   loaded, awaited, result, fetches, run, before, prev_ok,
                   workspace_root, op, calls>>

\* what the registry answers and what the archive unpacks to
ArchiveAnswers == {"http", "empty", "several", "file", "ok"}

\* a download that takes the first of several top-level entries
RegistryFetchFirstEntry(package, sd, answer) ==
    LET name == package.name
        created == copy_dir_all(EmptyTree, sd, name)
    IN  CASE answer = "http" ->
               [spago_dir |-> sd,
                err |-> <<"Failed to fetch package from registry", name>>]
          [] answer = "empty" ->
               [spago_dir |-> created,
                err |-> <<"Expected exactly one top-level directory", name,
                          answer>>]
          [] answer = "file" ->
               [spago_dir |-> created,
                err |-> <<"Top-level entry is not a directory", name>>]
          [] OTHER ->
               [spago_dir |-> copy_dir_all(ArchiveTree(package.version),
                                           created, name),
                err |-> NoErr]

\* manager.rs:274-351: the install dir after the download, and the error
RegistryFetch(package, sd, answer) ==
    LET name == package.name
        created == copy_dir_all(EmptyTree, sd, name)
    IN  CASE answer = "http" ->
               [spago_dir |-> sd,
                err |-> <<"Failed to fetch package from registry", name>>]
          [] answer \in {"empty", "several"} ->
               [spago_dir |-> created,
                err |-> <<"Expected exactly one top-level directory", name,
                          answer>>]
          [] answer = "file" ->
               [spago_dir |-> created,
                err |-> <<"Top-level entry is not a directory", name>>]
          [] OTHER ->
               [spago_dir |-> copy_dir_all(ArchiveTree(package.version),
                                           created, name),
                err |-> NoErr]

\* what the repository answers: the transfer fails, the repository has no
\* commit yet, or HEAD is at a version
GitAnswers == {"fail", "unborn"} \cup Versions

\* the clone of a repository without a commit
UnbornTree == [p \in {".git"} |-> "unborn"]

\* git.rs:18-83: the install dir after the fetch, the error, and whether
\* the network was used
fetch_package(package, sd, answer) ==
    LET name == package.name
    IN  IF Exists(sd, name)
        THEN IF ".git" \notin DOMAIN sd[name]
             THEN [spago_dir |-> sd, network |-> FALSE,
                   err |-> <<"Failed to open existing repository", name>>]
             ELSE IF sd[name][".git"] = package.version
             THEN [spago_dir |-> sd, network |-> FALSE, err |-> NoErr]
             ELSE IF answer = "fail"
             THEN [spago_dir |-> sd, network |-> TRUE,
                   err |-> <<"Failed to fetch from remote", name>>]
             ELSE [spago_dir |-> [sd EXCEPT ![name] = prune_package(@)],
                   network |-> TRUE, err |-> NoErr]
        ELSE IF answer = "fail"
             THEN [spago_dir |-> sd, network |-> TRUE,
                   err |-> <<"Failed to clone repository", name>>]
             ELSE IF answer = "unborn"
             THEN [spago_dir |-> copy_dir_all(UnbornTree, sd, name),
                   network |-> TRUE, err |-> <<"Failed to get HEAD", name>>]
             ELSE [spago_dir |->
                       copy_dir_all(prune_package(GitTree(answer)), sd, name),
                   network |-> TRUE, err |-> NoErr]

\* manager.rs:274-354 and 403-411: the origin fetch, then cache_package up
\* to its copy into the cache
TaskFetch(n, answer) ==
    /\ pc[n] = "fetch"
    /\ LET package == package_set[n]
           r == IF package.kind = "Registry"
                THEN [network |-> TRUE] @@
                     RegistryFetch(package, spago_dir, answer)
                ELSE fetch_package(package, spago_dir, answer)
       IN  /\ answer \in (IF package.kind = "Registry"
                          THEN ArchiveAnswers ELSE GitAnswers)
           /\ spago_dir' = r.spago_dir
           /\ fetches' = IF r.network THEN fetches \cup {n} ELSE fetches
           /\ IF r.err # NoErr
              THEN /\ pc' = [pc EXCEPT ![n] = "done"]
                   /\ outcome' = [outcome EXCEPT ![n] = Failed(r.err)]
                   /\ UNCHANGED cache_dirs
              ELSE /\ pc' = [pc EXCEPT ![n] = "load"]
                   /\ cache_dirs' = CacheCopy(cache_dirs, n, package.version,
                                              r.spago_dir[n])
                   /\ UNCHANGED outcome
    /\ UNCHANGED <<package_set, direct, closure, index, tasks, loaded,
                   awaited, result, run, before, prev_ok, workspace_root,
                   op, calls>>

\* cache.rs:104
TaskLoadIndex(n) ==
    /\ pc[n] = "load"
    /\ loaded' = [loaded EXCEPT ![n] = load_index(index)]
    /\ pc' = [pc EXCEPT ![n] = "save"]
    /\ UNCHANGED <<package_set, direct, closure, spago_dir, cache_dirs, index,
                   tasks, outcome, awaited, result, fetches, run, before,
                   prev_ok, workspace_root, op, calls>>

\* a save that reads the index again before it puts its entry in
TaskSaveIndexFresh(n) ==
    /\ pc[n] = "save"
    /\ index' = save_index(IndexInsert(load_index(index), n,
                                       package_set[n].version))
    /\ loaded' = [loaded EXCEPT ![n] = EmptyIndex]
    /\ pc' = [pc EXCEPT ![n] = "done"]
    /\ outcome' = [outcome EXCEPT ![n] = Installed]
    /\ UNCHANGED <<package_set, direct, closure, spago_dir, cache_dirs, tasks,
                   awaited, result, fetches, run, before, prev_ok,
                   workspace_root, op, calls>>

\* cache.rs:105-117, then manager.rs:356-359 and 413
TaskSaveIndex(n) ==
    /\ pc[n] = "save"
    /\ index' = save_index(IndexInsert(loaded[n], n, package_set[n].version))
    /\ loaded' = [loaded EXCEPT ![n] = EmptyIndex]
    /\ pc' = [pc EXCEPT ![n] = "done"]
    /\ outcome' = [outcome EXCEPT ![n] = Installed]
    /\ UNCHANGED <<package_set, direct, closure, spago_dir, cache_dirs, tasks,
                   awaited, result, fetches, run, before, prev_ok,
                   workspace_root, op, calls>>

(***************************************************************************)
(* The batch, manager.rs:82-193.                                           *)
(***************************************************************************)
\* the order PackageName derives (registry/types.rs:8)
NameOrder == <<"a", "b", "c", "zz">>

\* packages.rs:45-53
local_packages(ps) == {n \in DOMAIN ps : ps[n].kind = "Local"}

\* packages.rs:55-70: dependencies and names of the local packages, sorted
\* and without repetition
all_workspace_dependencies(ps) ==
    LET local == UNION {Range(ps[n].dependencies) \cup {n} :
                        n \in local_packages(ps)}
    IN  SelectSeq(NameOrder, LAMBDA n : n \in local)

\* the manifest's own names, whatever the workspace
DirectOnly(ps, names, is_root) == names

\* manager.rs:95-104
direct_package_dependencies(ps, names, is_root) ==
    IF is_root THEN names \o all_workspace_dependencies(ps) ELSE names

Perms(S) == {s \in DistinctSeqs(S, Cardinality(S)) : Len(s) = Cardinality(S)}

Idle == [status |-> "idle", installed |-> <<>>, message |-> <<>>]
Running == [status |-> "running", installed |-> <<>>, message |-> <<>>]

Snapshot == [spago_dir |-> spago_dir, cache_dirs |-> cache_dirs,
             index |-> index, fetches |-> fetches]

\* the names the awaited tasks installed (manager.rs:159-169)
RECURSIVE InstalledOf(_, _)
InstalledOf(ts, out) ==
    IF ts = <<>> THEN <<>>
    ELSE (IF out[Head(ts)].kind = "installed" THEN <<Head(ts)>> ELSE <<>>)
         \o InstalledOf(Tail(ts), out)

\* the errors of the awaited tasks (manager.rs:172-178)
RECURSIVE ErrorsOf(_, _)
ErrorsOf(ts, out) ==
    IF ts = <<>> THEN <<>>
    ELSE (IF out[Head(ts)].kind = "error" THEN <<out[Head(ts)].err>>
          ELSE <<>>)
         \o ErrorsOf(Tail(ts), out)

\* a report that names the first error only
ReportFirstError(ts, out) ==
    IF ErrorsOf(ts, out) # <<>>
    THEN [status |-> "Err", installed |-> <<>>,
          message |-> <<Head(ErrorsOf(ts, out))>>]
    ELSE [status |-> "Ok", installed |-> InstalledOf(ts, out),
          message |-> <<>>]

\* manager.rs:182-192: Err with the joined errors, or Ok
Report(ts, out) ==
    IF ErrorsOf(ts, out) # <<>>
    THEN [status |-> "Err", installed |-> <<>>, message |-> ErrorsOf(ts, out)]
    ELSE [status |-> "Ok", installed |-> InstalledOf(ts, out),
          message |-> <<>>]

\* manager.rs:82-151: the closure walk, then one task per closure member
InstallPackages ==
    /\ result.status \in {"idle", "Ok", "Err"}
    /\ run < MaxRuns
    /\ run' = run + 1
    /\ prev_ok' = (result.status = "Ok")
    /\ before' = Snapshot
    /\ fetches' = {}
    /\ awaited' = 0
    /\ LET walk == CollectAll(direct_package_dependencies(
                                  package_set, direct, workspace_root),
                              package_set)
       IN  /\ closure' = walk
           /\ IF walk.err # NoErr
              THEN /\ result' = [status |-> "Err", installed |-> <<>>,
                                 message |-> <<walk.err>>]
                   /\ tasks' = <<>>
                   /\ UNCHANGED <<pc, outcome>>
              ELSE /\ result' = Running
                   /\ tasks' \in Perms(walk.all_packages)
                   /\ pc' = [n \in Names |->
                               IF n \in walk.all_packages THEN "start"
                               ELSE "idle"]
                   /\ outcome' = [n \in Names |-> Pending]
    /\ UNCHANGED <<package_set, direct, spago_dir, cache_dirs, index, loaded,
                   workspace_root, op, calls>>

\* manager.rs:157-180: the next task of the vector is awaited
Await ==
    /\ result.status = "running"
    /\ awaited < Len(tasks)
    /\ pc[tasks[awaited + 1]] = "done"
    /\ awaited' = awaited + 1
    /\ UNCHANGED <<package_set, direct, closure, spago_dir, cache_dirs, index,
                   tasks, pc, outcome, loaded, result, fetches, run, before,
                   prev_ok, workspace_root, op, calls>>

\* a return at the first error among the tasks awaited so far
ReturnAtFirstError ==
    /\ result.status = "running"
    /\ \/ awaited = Len(tasks)
       \/ ErrorsOf(SubSeq(tasks, 1, awaited), outcome) # <<>>
    /\ result' = Report(SubSeq(tasks, 1, awaited), outcome)
    /\ UNCHANGED <<package_set, direct, closure, spago_dir, cache_dirs, index,
                   tasks, pc, outcome, loaded, awaited, fetches, run, before,
                   prev_ok, workspace_root, op, calls>>

\* manager.rs:182-192
Return ==
    /\ result.status = "running"
    /\ awaited = Len(tasks)
    /\ result' = Report(SubSeq(tasks, 1, awaited), outcome)
    /\ UNCHANGED <<package_set, direct, closure, spago_dir, cache_dirs, index,
                   tasks, pc, outcome, loaded, awaited, fetches, run, before,
                   prev_ok, workspace_root, op, calls>>

(***************************************************************************)
(* Spec: install_packages run up to MaxRuns times on one machine.          *)
(***************************************************************************)
\* the tree a successful install of n at version v leaves in the install dir
InstalledTree(n, v) ==
    IF KindOf[n] = "Registry" THEN ArchiveTree(v) ELSE prune_package(GitTree(v))

None == {}
Some(x) == {x}

\* what the machine holds for the Remote package: its install dir (if any)
\* and the version and key of its index entry (if any)
RemoteStates ==
    {[dest |-> None, entry |-> None],
     [dest |-> None, entry |-> Some(<<Declared, CACHE_KEY>>)],
     [dest |-> None, entry |-> Some(<<Declared, OLD_KEY>>)],
     [dest |-> Some(GitTree(Declared)), entry |-> None],
     [dest |-> Some(GitTree(Other)), entry |-> None],
     [dest |-> Some(InstalledTree("a", Other)),
      entry |-> Some(<<Other, CACHE_KEY>>)]}

RegistryStates ==
    {[dest |-> None, entry |-> None],
     [dest |-> None, entry |-> Some(<<Declared, CACHE_KEY>>)],
     [dest |-> None, entry |-> Some(<<Declared, OLD_KEY>>)],
     [dest |-> Some(ArchiveTree(Declared)),
      entry |-> Some(<<Declared, CACHE_KEY>>)],
     [dest |-> Some(ArchiveTree(Other)), entry |-> Some(<<Other, CACHE_KEY>>)],
     [dest |-> Some(EmptyTree), entry |-> None]}

MachineStates ==
    [a : RemoteStates, b : RegistryStates,
     c : {[dest |-> None, entry |-> None]}]

TheOne(S) == CHOOSE x \in S : TRUE

DiskOf(m) ==
    [n \in {x \in Present : m[x].dest # None} |-> TheOne(m[n].dest)]

IndexOf(m) ==
    [n \in {x \in Present : m[x].entry # None} |->
        LET e == TheOne(m[n].entry)
        IN  [name |-> n, version |-> e[1], key |-> e[2],
             cached_path |-> <<n, e[1], e[2]>>]]

CacheOf(m) ==
    LET ix == IndexOf(m)
    IN  [q \in {ix[n].cached_path : n \in DOMAIN ix} |->
            InstalledTree(q[1], q[2])]

\* the dependency lists of the package sets of Spec
BatchDeps ==
    [a : {<<"b">>, <<"c">>}, b : {<<>>, <<"c">>, <<Missing>>},
     c : {<<"b">>}]

Init ==
    /\ \E d \in BatchDeps : package_set = [n \in Present |-> Package(n, d[n])]
    /\ direct = <<"a">>
    /\ workspace_root \in BOOLEAN
    /\ \E m \in MachineStates :
          /\ spago_dir = DiskOf(m)
          /\ index = save_index(IndexOf(m))
          /\ cache_dirs = CacheOf(m)
    /\ closure = EmptyWalk
    /\ tasks = <<>>
    /\ pc = [n \in Names |-> "idle"]
    /\ outcome = [n \in Names |-> Pending]
    /\ loaded = [n \in Names |-> EmptyIndex]
    /\ awaited = 0
    /\ result = Idle
    /\ fetches = {}
    /\ run = 0
    /\ before = Snapshot
    /\ prev_ok = FALSE
    /\ op = NoCall
    /\ calls = 0

Next ==
    \/ InstallPackages
    \/ \E n \in Names : TaskStart(n)
    \/ \E n \in Names : \E answer \in ArchiveAnswers \cup GitAnswers :
          TaskFetch(n, answer)
    \/ \E n \in Names : TaskLoadIndex(n)
    \/ \E n \in Names : TaskSaveIndex(n)
    \/ Await
    \/ Return

Spec == Init /\ [][Next]_vars

(***************************************************************************)
(* SpecClosure: the closure walk of install_packages (manager.rs:91-129)   *)
(* applied to every package set and manifest within the bounds.            *)
(***************************************************************************)
DepLists == DistinctSeqs(Names, MaxDeps)

InitClosure ==
    /\ \E d \in [Present -> DepLists] :
          package_set = [n \in Present |-> Package(n, d[n])]
    /\ direct \in DepLists
    /\ workspace_root = FALSE
    /\ spago_dir = [n \in {} |-> EmptyTree]
    /\ cache_dirs = [q \in {} |-> EmptyTree]
    /\ index = NoIndexFile
    /\ closure = EmptyWalk
    /\ tasks = <<>>
    /\ pc = [n \in Names |-> "idle"]
    /\ outcome = [n \in Names |-> Pending]
    /\ loaded = [n \in Names |-> EmptyIndex]
    /\ awaited = 0
    /\ result = Idle
    /\ fetches = {}
    /\ run = 0
    /\ before = Snapshot
    /\ prev_ok = FALSE
    /\ op = NoCall
    /\ calls = 0

Walked == [status |-> "walked", installed |-> <<>>, message |-> <<>>]

\* manager.rs:91-129
ClosureWalk ==
    /\ result.status = "idle"
    /\ closure' = CollectAll(direct_package_dependencies(
                                 package_set, direct, workspace_root),
                             package_set)
    /\ result' = Walked
    /\ UNCHANGED <<package_set, direct, spago_dir, cache_dirs, index, tasks,
                   pc, outcome, loaded, awaited, fetches, run, before,
                   prev_ok, workspace_root, op, calls>>

NextClosure == ClosureWalk

SpecClosure == InitClosure /\ [][NextClosure]_vars

(***************************************************************************)
(* SpecCache: one process calling the cache's operations, cache.rs.        *)
(***************************************************************************)
CacheNames == {"a", "b"}

\* the source directories handed to cache_package
SourceTrees == {ArchiveTree(Declared), prune_package(GitTree(Other))}

Fresh == [dest |-> None, entry |-> None]

CacheMachines ==
    {m \in MachineStates :
        \/ m.a = Fresh /\ m.b = Fresh
        \/ m.a.entry = Some(<<Declared, OLD_KEY>>) /\ m.b.dest = Some(EmptyTree)
        \/ m.a.entry = Some(<<Other, CACHE_KEY>>)
             /\ m.b.entry = Some(<<Declared, CACHE_KEY>>) /\ m.b.dest = None}

InitCache ==
    /\ package_set = [n \in Present |-> Package(n, <<>>)]
    /\ direct = <<>>
    /\ workspace_root = FALSE
    /\ \E m \in CacheMachines :
          /\ spago_dir = DiskOf(m)
          /\ cache_dirs = CacheOf(m)
          /\ index \in {save_index(IndexOf(m)), Garbage}
    /\ closure = EmptyWalk
    /\ tasks = <<>>
    /\ pc = [n \in Names |-> "idle"]
    /\ outcome = [n \in Names |-> Pending]
    /\ loaded = [n \in Names |-> EmptyIndex]
    /\ awaited = 0
    /\ result = Idle
    /\ fetches = {}
    /\ run = 0
    /\ before = Snapshot
    /\ prev_ok = FALSE
    /\ op = NoCall
    /\ calls = 0

CacheFrame ==
    UNCHANGED <<package_set, direct, closure, tasks, pc, outcome, loaded,
                awaited, result, fetches, run, before, prev_ok,
                workspace_root>>

\* cache.rs:87-118
CachePackage(name, version, src) ==
    /\ calls < MaxCalls
    /\ calls' = calls + 1
    /\ LET r == cache_package(cache_dirs, index, name, version, src)
       IN  /\ cache_dirs' = r.cache_dirs
           /\ index' = r.index
           /\ op' = [kind |-> "cache_package", name |-> name,
                     version |-> version, src |-> src, ret |-> r.ret,
                     prior |-> IF Exists(cache_dirs, r.ret)
                               THEN Some(cache_dirs[r.ret]) ELSE None]
    /\ UNCHANGED spago_dir
    /\ CacheFrame

\* cache.rs:87-118, a call that returns an error
CachePackageFailed(name, version, src, fault, partial) ==
    /\ calls < MaxCalls
    /\ calls' = calls + 1
    /\ fault = "remove" => Exists(cache_dirs, CachedName(name, version))
    /\ LET r == cache_package_failed(cache_dirs, index, name, version, src,
                                     fault, partial)
       IN  /\ cache_dirs' = r.cache_dirs
           /\ index' = r.index
           /\ op' = [kind |-> "cache_package_failed", name |-> name,
                     version |-> version, src |-> src, err |-> r.err]
    /\ UNCHANGED spago_dir
    /\ CacheFrame

\* cache.rs:121-138, with the install directory of the package as dest
CopyFromCache(name, version) ==
    /\ calls < MaxCalls
    /\ calls' = calls + 1
    /\ LET r == copy_from_cache(spago_dir, cache_dirs, index, name, version,
                                name)
       IN  /\ spago_dir' = r.spago_dir
           /\ op' = [kind |-> "copy_from_cache", name |-> name,
                     version |-> version, err |-> r.err,
                     prior |-> IF Exists(spago_dir, name)
                               THEN Some(spago_dir[name]) ELSE None]
    /\ UNCHANGED <<cache_dirs, index>>
    /\ CacheFrame

\* cache.rs:141-152
ClearAll ==
    /\ calls < MaxCalls
    /\ calls' = calls + 1
    /\ LET r == clear_all(cache_dirs, index)
       IN  /\ cache_dirs' = r.cache_dirs
           /\ index' = r.index
    /\ op' = [kind |-> "clear_all"]
    /\ UNCHANGED spago_dir
    /\ CacheFrame

\* cache.rs:69-84: the two lookups, asked of the same index
Lookup(name, version) ==
    /\ calls < MaxCalls
    /\ calls' = calls + 1
    /\ op' = [kind |-> "lookup", name |-> name, version |-> version,
              is_cached |-> is_cached(index, name, version),
              path |-> get_cached_path(index, name, version)]
    /\ UNCHANGED <<spago_dir, cache_dirs, index>>
    /\ CacheFrame

NextCache ==
    \/ \E n \in CacheNames, v \in Versions, src \in SourceTrees :
          CachePackage(n, v, src)
    \/ \E n \in CacheNames, v \in Versions, src \in SourceTrees,
          fault \in CacheFaults :
          \E partial \in IF fault = "copy" THEN PartialCopies(src)
                           ELSE {EmptyTree} :
              CachePackageFailed(n, v, src, fault, partial)
    \/ \E n \in CacheNames, v \in Versions : CopyFromCache(n, v)
    \/ ClearAll
    \/ \E n \in CacheNames, v \in Versions : Lookup(n, v)

SpecCache == InitCache /\ [][NextCache]_vars

(***************************************************************************)
(* SpecCleanup: the closure walk of install_packages and                   *)
(* cleanup_unused_packages (cleanup.rs), each run once on the manifest as  *)
(* it is after an edit, as the install command does                        *)
(* (cli/commands/install.rs:61-64).                                        *)
(***************************************************************************)
RECURSIVE cleanup_collect_dependencies_recursive(_, _, _)
RECURSIVE CleanupCollectEach(_, _, _)

\* cleanup.rs:103-105
CleanupCollectEach(deps, ps, st) ==
    IF deps = <<>> THEN st
    ELSE CleanupCollectEach(
             Tail(deps), ps,
             cleanup_collect_dependencies_recursive(Head(deps), ps, st))

\* a walk that inserts a name without walking the names its package lists
CleanupCollectShallow(package_name, ps, st) ==
    IF package_name \in st.processed THEN st
    ELSE LET marked == [st EXCEPT !.processed = @ \cup {package_name},
                                  !.visited = Append(@, package_name)]
         IN  IF package_name \notin DOMAIN ps
             THEN marked
             ELSE [marked EXCEPT
                     !.all_packages = @ \cup {package_name},
                     !.inserted = Append(@, package_name)]

\* a walk that counts a name without a package as required
CleanupCollectAbsentToo(package_name, ps, st) ==
    IF package_name \in st.processed THEN st
    ELSE LET marked == [st EXCEPT !.processed = @ \cup {package_name},
                                  !.visited = Append(@, package_name)]
             below == IF package_name \notin DOMAIN ps THEN marked
                      ELSE CleanupCollectEach(ps[package_name].dependencies,
                                              ps, marked)
         IN  [below EXCEPT !.all_packages = @ \cup {package_name},
                           !.inserted = Append(@, package_name)]

\* cleanup.rs:87-112: a name without a package is marked and passed over
cleanup_collect_dependencies_recursive(package_name, ps, st) ==
    IF package_name \in st.processed THEN st
    ELSE LET marked == [st EXCEPT !.processed = @ \cup {package_name},
                                  !.visited = Append(@, package_name)]
         IN  IF package_name \notin DOMAIN ps
             THEN marked
             ELSE LET below == CleanupCollectEach(
                                   ps[package_name].dependencies, ps, marked)
                  IN  [below EXCEPT
                         !.all_packages = @ \cup {package_name},
                         !.inserted = Append(@, package_name)]

\* config/types.rs:81-90: the names of the manifest, sorted and without
\* repetition
all_dependencies(names) == SelectSeq(NameOrder, LAMBDA n : n \in Range(names))

\* a directory left by an earlier layout, named by package and version
Legacy == "a-1.0"

\* cleanup.rs:45-63: the name before a last '-' part that holds a '.'; none
\* of the package names has a '-'
clean_name(package_name) == IF package_name = Legacy THEN "a" ELSE package_name

\* cleanup.rs:10-84: the install dir afterwards and the names removed
cleanup_unused_packages(names, ps, sd) ==
    LET required_packages ==
            CleanupCollectEach(all_dependencies(names), ps,
                               EmptyWalk).all_packages
        unused == {d \in DOMAIN sd : clean_name(d) \notin required_packages}
    IN  [spago_dir |-> [d \in DOMAIN sd \ unused |-> sd[d]],
         removed |-> unused]

\* the dependency lists of the package sets and manifests of SpecCleanup
CleanupLists == {<<>>} \cup {<<n>> : n \in Names}

\* the directories the install dir may hold
CleanupDirs == {"a", "b", Legacy, Missing}

InitCleanup ==
    /\ \E d \in [Present -> CleanupLists] :
          package_set = [n \in Present |-> Package(n, d[n])]
    /\ direct \in CleanupLists
    /\ workspace_root \in BOOLEAN
    /\ \E D \in SUBSET CleanupDirs :
          \* the directory of Missing was installed from a package set that
          \* still held a package of that name
          /\ spago_dir = [d \in D |->
                            IF clean_name(d) \in Present
                            THEN InstalledTree(clean_name(d), Declared)
                            ELSE ArchiveTree(Declared)]
          /\ index = save_index(
                         [n \in D \cap Present |->
                             [name |-> n, version |-> Declared,
                              key |-> CACHE_KEY,
                              cached_path |-> CachedName(n, Declared)]])
          /\ cache_dirs = [q \in {CachedName(n, Declared) : n \in D \cap Present}
                              |-> InstalledTree(q[1], Declared)]
    /\ closure = EmptyWalk
    /\ tasks = <<>>
    /\ pc = [n \in Names |-> "idle"]
    /\ outcome = [n \in Names |-> Pending]
    /\ loaded = [n \in Names |-> EmptyIndex]
    /\ awaited = 0
    /\ result = Idle
    /\ fetches = {}
    /\ run = 0
    /\ before = Snapshot
    /\ prev_ok = FALSE
    /\ op = NoCall
    /\ calls = 0

\* a cleanup that also evicts what it removed from the cache
CleanupEvicting ==
    /\ calls = 0
    /\ calls' = 1
    /\ before' = Snapshot
    /\ LET r == cleanup_unused_packages(direct, package_set, spago_dir)
           kept == {q \in DOMAIN cache_dirs : q[1] \notin r.removed}
           ix == load_index(index)
       IN  /\ spago_dir' = r.spago_dir
           /\ cache_dirs' = [q \in kept |-> cache_dirs[q]]
           /\ index' = save_index([n \in DOMAIN ix \ r.removed |-> ix[n]])
           /\ op' = [kind |-> "cleanup", removed |-> r.removed]
    /\ UNCHANGED <<package_set, direct, closure, tasks, pc, outcome, loaded,
                   awaited, result, fetches, run, prev_ok, workspace_root>>

\* cli/commands/install.rs:64 and cli/commands/uninstall.rs:50
Cleanup ==
    /\ calls = 0
    /\ calls' = 1
    /\ before' = Snapshot
    /\ LET r == cleanup_unused_packages(direct, package_set, spago_dir)
       IN  /\ spago_dir' = r.spago_dir
           /\ op' = [kind |-> "cleanup", removed |-> r.removed]
    /\ UNCHANGED <<package_set, direct, closure, cache_dirs, index, tasks, pc,
                   outcome, loaded, awaited, result, fetches, run, prev_ok,
                   workspace_root>>

NextCleanup == Cleanup \/ ClosureWalk

SpecCleanup == InitCleanup /\ [][NextCleanup]_vars

(***************************************************************************)
(* Queries over the package set, registry/packages.rs.                     *)
(***************************************************************************)
RECURSIVE TransitiveLoop(_, _, _, _, _)

\* a walk that serves the newest name first
TransitiveDepthFirst(ps, name, queue, visited, found) ==
    IF queue = <<>> THEN found
    ELSE LET current_name == Head(queue)
         IN  IF current_name \notin DOMAIN ps
             THEN TransitiveLoop(ps, name, Tail(queue), visited, found)
             ELSE LET new == SelectSeq(ps[current_name].dependencies,
                                       LAMBDA dep : dep \notin visited)
                  IN  TransitiveLoop(
                          ps, name, new \o Tail(queue),
                          visited \cup Range(new),
                          IF current_name # name
                          THEN Append(found, current_name) ELSE found)

\* packages.rs:106-124: the queue is served from its head; a name without a
\* package is dropped, the dependencies not yet visited are queued
TransitiveLoop(ps, name, queue, visited, found) ==
    IF queue = <<>> THEN found
    ELSE LET current_name == Head(queue)
         IN  IF current_name \notin DOMAIN ps
             THEN TransitiveLoop(ps, name, Tail(queue), visited, found)
             ELSE LET new == SelectSeq(ps[current_name].dependencies,
                                       LAMBDA dep : dep \notin visited)
                  IN  TransitiveLoop(
                          ps, name, Tail(queue) \o new,
                          visited \cup Range(new),
                          IF current_name # name
                          THEN Append(found, current_name) ELSE found)

\* packages.rs:97-127
get_transitive_dependencies(ps, name) ==
    IF name \notin DOMAIN ps
    THEN [err |-> <<"not found in package set", name>>, result |-> <<>>]
    ELSE [err |-> NoErr,
          result |-> TransitiveLoop(ps, name, <<name>>, {name}, <<>>)]

\* the first position of x in the sequence s
Position(s, x) == CHOOSE i \in 1..Len(s) : s[i] = x /\ \A j \in 1..(i - 1) : s[j] # x

RECURSIVE dfs_circular_detection(_, _, _, _)
RECURSIVE DfsEach(_, _, _, _)

\* the memo set of a scan, and the names it pushed on its path, in order
NoMemo == [visited |-> {}, walked |-> <<>>]

\* a scan that reports the whole path, not the part from the repeated name
DfsWholePath(ps, current, memo, path) ==
    IF current \in Range(path)
    THEN [cycle |-> {path \o <<current>>},
          visited |-> memo.visited, walked |-> memo.walked]
    ELSE IF current \in memo.visited
    THEN [cycle |-> {}, visited |-> memo.visited, walked |-> memo.walked]
    ELSE LET r == DfsEach(ps,
                          IF current \in DOMAIN ps
                          THEN ps[current].dependencies ELSE <<>>,
                          [memo EXCEPT !.walked = Append(@, current)],
                          Append(path, current))
         IN  IF r.cycle # {} THEN r
             ELSE [r EXCEPT !.visited = @ \cup {current}]

\* packages.rs:184-223: the chain found, if any, the names explored and the
\* names pushed on the path
dfs_circular_detection(ps, current, memo, path) ==
    IF current \in Range(path)
    THEN [cycle |-> {SubSeq(path, Position(path, current), Len(path))
                        \o <<current>>},
          visited |-> memo.visited, walked |-> memo.walked]
    ELSE IF current \in memo.visited
    THEN [cycle |-> {}, visited |-> memo.visited, walked |-> memo.walked]
    ELSE LET r == DfsEach(ps,
                          IF current \in DOMAIN ps
                          THEN ps[current].dependencies ELSE <<>>,
                          [memo EXCEPT !.walked = Append(@, current)],
                          Append(path, current))
         IN  IF r.cycle # {} THEN r
             ELSE [r EXCEPT !.visited = @ \cup {current}]

\* a scan that follows only the first dependency of a package
DfsFirstOnly(ps, deps, memo, path) ==
    IF deps = <<>>
    THEN [cycle |-> {}, visited |-> memo.visited, walked |-> memo.walked]
    ELSE dfs_circular_detection(ps, Head(deps), memo, path)

\* packages.rs:209-215: the dependencies in order, up to the first chain
DfsEach(ps, deps, memo, path) ==
    IF deps = <<>>
    THEN [cycle |-> {}, visited |-> memo.visited, walked |-> memo.walked]
    ELSE LET r == dfs_circular_detection(ps, Head(deps), memo, path)
         IN  IF r.cycle # {} THEN r
             ELSE DfsEach(ps, Tail(deps),
                          [visited |-> r.visited, walked |-> r.walked], path)

\* packages.rs:176-181: every scan begins with an empty memo set and path
ChainScan(ps, start_package) ==
    dfs_circular_detection(ps, start_package, NoMemo, <<>>)

find_circular_dependency_chain(ps, start_package) ==
    ChainScan(ps, start_package).cycle

\* packages.rs:156-166: one scan per local package, in the order the map
\* hands them out
check_circular_dependencies(ps, order) ==
    [i \in 1..Len(order) |->
        [root |-> order[i]] @@ ChainScan(ps, order[i])]

\* a lookup that fails when a listed name has no package
GetDependenciesStrict(ps, name) ==
    IF name \notin DOMAIN ps \/ Range(ps[name].dependencies) \ DOMAIN ps # {}
    THEN [err |-> <<"not found in package set", name>>, result |-> <<>>]
    ELSE [err |-> NoErr, result |-> ps[name].dependencies]

\* packages.rs:83-93: the packages of the listed names that the set holds
get_dependencies(ps, name) ==
    IF name \notin DOMAIN ps
    THEN [err |-> <<"not found in package set", name>>, result |-> <<>>]
    ELSE [err |-> NoErr,
          result |-> SelectSeq(ps[name].dependencies,
                               LAMBDA dep_name : dep_name \in DOMAIN ps)]

RECURSIVE ValidateEach(_, _, _)

\* validation.rs:122-133: the loop over config.package.dependencies; a
\* dependency whose walk fails is passed over, and a package the walk
\* returned is reported when the set holds no package of its name
ValidateEach(deps, ps, errors) ==
    IF deps = <<>> THEN errors
    ELSE LET r == get_transitive_dependencies(ps, Head(deps))
             missing == IF r.err # NoErr THEN <<>>
                        ELSE SelectSeq(r.result,
                                       LAMBDA trans_dep :
                                           ps[trans_dep].name \notin DOMAIN ps)
         IN  ValidateEach(Tail(deps), ps, errors \o missing)

\* validation.rs:117-136
validate_transitive_deps(dependencies, ps) ==
    LET errors == ValidateEach(dependencies, ps, <<>>)
    IN  [is_valid |-> errors = <<>>, errors |-> errors]

(***************************************************************************)
(* SpecQuery: one query of PackageQuery (registry/packages.rs) on a        *)
(* package set of four packages.                                           *)
(***************************************************************************)
QueryNames == Present \cup {"d"}

\* the dependency lists of the first two packages
QueryLists == DistinctSeqs(QueryNames \cup {Missing}, MaxDeps)

\* the workspace members of the package sets of SpecQuery
QueryLocals == {{"a", "b"}, {"a", "b", "c"}}

QueryPackage(n, deps, locals) ==
    [name |-> n, kind |-> IF n \in locals THEN "Local" ELSE "Registry",
     version |-> Declared, dependencies |-> deps]

InitQuery ==
    /\ \E da \in QueryLists, db \in QueryLists,
          dc \in {<<>>, <<"a">>, <<"d">>}, dd \in {<<>>, <<"a">>},
          locals \in QueryLocals :
          package_set =
              [n \in QueryNames |->
                  QueryPackage(n,
                               CASE n = "a" -> da [] n = "b" -> db
                                 [] n = "c" -> dc [] OTHER -> dd,
                               locals)]
    /\ direct = <<>>
    /\ workspace_root = FALSE
    /\ spago_dir = [n \in {} |-> EmptyTree]
    /\ cache_dirs = [q \in {} |-> EmptyTree]
    /\ index = NoIndexFile
    /\ closure = EmptyWalk
    /\ tasks = <<>>
    /\ pc = [n \in Names |-> "idle"]
    /\ outcome = [n \in Names |-> Pending]
    /\ loaded = [n \in Names |-> EmptyIndex]
    /\ awaited = 0
    /\ result = Idle
    /\ fetches = {}
    /\ run = 0
    /\ before = Snapshot
    /\ prev_ok = FALSE
    /\ op = NoCall
    /\ calls = 0

QueryFrame ==
    UNCHANGED <<package_set, direct, closure, spago_dir, cache_dirs, index,
                tasks, pc, outcome, loaded, awaited, result, fetches, run,
                before, prev_ok, workspace_root>>

\* packages.rs:83-93
GetDependencies(name) ==
    /\ calls = 0
    /\ calls' = 1
    /\ LET r == get_dependencies(package_set, name)
       IN  op' = [kind |-> "get_dependencies", name |-> name, err |-> r.err,
                  result |-> r.result]
    /\ QueryFrame

\* packages.rs:97-127
GetTransitiveDependencies(name) ==
    /\ calls = 0
    /\ calls' = 1
    /\ LET r == get_transitive_dependencies(package_set, name)
       IN  op' = [kind |-> "get_transitive_dependencies", name |-> name,
                  err |-> r.err, result |-> r.result]
    /\ QueryFrame

\* packages.rs:176-181, for a local package as at packages.rs:159
FindCircularDependencyChain(start_package) ==
    /\ calls = 0
    /\ calls' = 1
    /\ start_package \in local_packages(package_set)
    /\ LET r == ChainScan(package_set, start_package)
       IN  op' = [kind |-> "find_circular_dependency_chain",
                  name |-> start_package, cycle |-> r.cycle,
                  walked |-> r.walked]
    /\ QueryFrame

\* packages.rs:151-173
CheckCircularDependencies(order) ==
    /\ calls = 0
    /\ calls' = 1
    /\ order \in Perms(local_packages(package_set))
    /\ LET scans == check_circular_dependencies(package_set, order)
       IN  op' = [kind |-> "check_circular_dependencies", scans |-> scans,
                  found_circular |->
                      \E i \in 1..Len(scans) : scans[i].cycle # {}]
    /\ QueryFrame

\* the dependency lists of the manifests handed to validate_transitive_deps
ValidateLists == {<<"a">>, <<"c", "b">>, <<Missing>>}

\* validation.rs:117-136, called at cli/commands/validate.rs:57
ValidateTransitiveDeps(dependencies) ==
    /\ calls = 0
    /\ calls' = 1
    /\ LET r == validate_transitive_deps(dependencies, package_set)
       IN  op' = [kind |-> "validate_transitive_deps",
                  dependencies |-> dependencies, is_valid |-> r.is_valid,
                  errors |-> r.errors]
    /\ QueryFrame

NextQuery ==
    \/ \E name \in QueryNames \cup {Missing} : GetDependencies(name)
    \/ \E name \in QueryNames \cup {Missing} : GetTransitiveDependencies(name)
    \/ \E start_package \in QueryNames :
          FindCircularDependencyChain(start_package)
    \/ \E order \in UNION {Perms(L) : L \in QueryLocals} :
          CheckCircularDependencies(order)
    \/ \E dependencies \in ValidateLists :
          ValidateTransitiveDeps(dependencies)

SpecQuery == InitQuery /\ [][NextQuery]_vars

(***************************************************************************)
(* Properties.                                                             *)
(***************************************************************************)
\* the names reached from S by following dependency lists, S included
RECURSIVE Expand(_, _)
Expand(S, ps) ==
    LET T == S \cup UNION {Range(ps[n].dependencies) : n \in S \cap DOMAIN ps}
    IN  IF T = S THEN S ELSE Expand(T, ps)

DirectNames ==
    Range(direct_package_dependencies(package_set, direct, workspace_root))

\* C1: when the closure walk succeeds, the closure holds every direct
\* dependency and every name reached from one through dependency lists, and
\* every name of the closure has a package in the package set.
C1_ClosureComplete ==
    (result.status = "walked" /\ closure.err = NoErr) =>
        /\ Expand(DirectNames, package_set) \subseteq closure.all_packages
        /\ closure.all_packages \subseteq DOMAIN package_set

\* a walk from one direct dependency that reached two more packages
C1_Witness ==
    /\ result.status = "walked"
    /\ closure.err = NoErr
    /\ Len(direct) = 1
    /\ closure.all_packages = Present

Returned == result.status \in {"Ok", "Err"}

TaskStep(n) ==
    \/ TaskStart(n)
    \/ \E answer \in ArchiveAnswers \cup GitAnswers : TaskFetch(n, answer)
    \/ TaskLoadIndex(n)
    \/ TaskSaveIndex(n)

C4_AbortBeforeInstall ==
    (run > 0 /\ ~(Expand(DirectNames, package_set) \subseteq DOMAIN package_set))
        => /\ result.status = "Err"
           /\ Len(result.message) = 1
           /\ result.message[1][1] = "Package not found in package set"
           /\ result.message[1][2] \notin DOMAIN package_set
           /\ tasks = <<>>
           /\ \A n \in Names : pc[n] = "idle"
           /\ fetches = {}
           /\ spago_dir = before.spago_dir
           /\ cache_dirs = before.cache_dirs
           /\ index = before.index

\* an aborted run on a machine where a package could have been installed
C4_Witness ==
    /\ run > 0
    /\ result.status = "Err"
    /\ closure.err = ErrNotFound(Missing)
    /\ ~Exists(spago_dir, "a")
    /\ is_cached(index, "a", Declared)

\* C5: in a run that follows a successful run on the same manifest, package
\* set and cache, nothing is fetched from an origin, and when the run
\* returns the install directory holds what it held when the run began.
C5_SecondRunIdle ==
    (run >= 2 /\ prev_ok) =>
        /\ fetches = {}
        /\ Returned => spago_dir = before.spago_dir

\* a second run that returned, after a first run that fetched both packages
C5_Witness ==
    /\ run >= 2
    /\ prev_ok
    /\ before.fetches = {"a", "b"}
    /\ Returned

\* C6: after cache_package(name, v, dir), is_cached(name, v) holds and
\* get_cached_path(name, v) is a directory whose tree is that of dir.
C6_CachedAfterCachePackage ==
    op.kind = "cache_package" =>
        /\ is_cached(index, op.name, op.version)
        /\ get_cached_path(index, op.name, op.version) = {op.ret}
        /\ Exists(cache_dirs, op.ret)
        /\ cache_dirs[op.ret] = op.src

\* cache_package for a name whose entry was of the other version
C6_Witness ==
    /\ op.kind = "cache_package"
    /\ op.version = Other
    /\ Exists(cache_dirs, CachedName(op.name, Declared))
    /\ DOMAIN load_index(index) = {"a", "b"}

\* C7: when cache_package is called for a (name, v) that has a cached copy
\* of other contents, no file that only the earlier copy had is in the
\* cached directory afterwards, and every file of the new source is.
C7_RecacheReplaces ==
    (op.kind = "cache_package" /\ op.prior # None /\ op.prior # Some(op.src)) =>
        /\ \A p \in DOMAIN TheOne(op.prior) \ DOMAIN op.src :
              p \notin DOMAIN cache_dirs[op.ret]
        /\ \A p \in DOMAIN op.src :
              p \in DOMAIN cache_dirs[op.ret] /\ cache_dirs[op.ret][p] = op.src[p]

\* the earlier copy had a file the new source has not
C7_Witness ==
    /\ op.kind = "cache_package"
    /\ op.prior # None
    /\ DOMAIN TheOne(op.prior) \ DOMAIN op.src # {}
    /\ DOMAIN op.src \ DOMAIN TheOne(op.prior) # {}

\* the entry the index file holds for a name, if it parses and has one
EntryOf(name) ==
    IF index.kind = "json" /\ name \in DOMAIN index.map
    THEN Some(index.map[name]) ELSE None

\* C8: get_cached_path(name, v) is the cached path of the entry of name when
\* that entry has version v and the running key, and none otherwise.
C8_PathIffCompatible ==
    op.kind = "lookup" =>
        LET compatible == {e \in EntryOf(op.name) :
                              e.version = op.version /\ e.key = CACHE_KEY}
        IN  op.path = {e.cached_path : e \in compatible}

\* a lookup of an entry of the asked version under another key
C8_Witness ==
    /\ op.kind = "lookup"
    /\ op.path = None
    /\ \E e \in EntryOf(op.name) : e.version = op.version /\ e.key = OLD_KEY

\* C9: is_cached(name, v) holds exactly when the index has an entry of name
\* with version v, whatever the key of that entry.
C9_IsCachedIgnoresKey ==
    op.kind = "lookup" =>
        (op.is_cached <=> \E e \in EntryOf(op.name) : e.version = op.version)

\* is_cached holds of an entry for which get_cached_path gives none
C9_Witness ==
    /\ op.kind = "lookup"
    /\ op.is_cached
    /\ op.path = None

\* the index entry of n when the run began is of the declared version under
\* another key than the running one
IncompatibleEntry(n) ==
    LET ix == load_index(before.index)
    IN  /\ n \in DOMAIN ix
        /\ ix[n].version = package_set[n].version
        /\ ix[n].key # CACHE_KEY

\* n was installed at its declared version when the run began
AlreadyInstalled(n) ==
    /\ Exists(before.spago_dir, n)
    /\ version_matches(package_set[n], before.spago_dir[n]).matches

\* C10: a task whose package is not installed and whose index entry has the
\* declared version under another key goes to the origin fetch: it neither
\* copies from the cache nor fails.
C10_IncompatibleEntryIsMiss ==
    \A n \in Range(tasks) :
        (/\ package_set[n].kind # "Local"
         /\ IncompatibleEntry(n)
         /\ ~AlreadyInstalled(n)
         /\ pc[n] = "done")
            => /\ outcome[n].err # ErrNotInCache(n, package_set[n].version)
               /\ outcome[n].kind = "installed" => n \in fetches

\* the index entry of n when the run began is of the declared version under
\* the running key
CompatibleEntry(n) ==
    LET ix == load_index(before.index)
    IN  /\ n \in DOMAIN ix
        /\ ix[n].version = package_set[n].version
        /\ ix[n].key = CACHE_KEY

\* when the run began n had no install directory, or one whose version could
\* be read and was not the declared one
NotInstalled(n) ==
    \/ ~Exists(before.spago_dir, n)
    \/ version_matches(package_set[n], before.spago_dir[n])
          = [err |-> NoErr, matches |-> FALSE]

\* the entry a file holds for a name, if any
EntryIn(file, n) ==
    LET ix == load_index(file)
    IN  IF n \in DOMAIN ix THEN Some(ix[n]) ELSE None

VersionFile(n) == IF package_set[n].kind = "Registry" THEN "purs.json" ELSE ".git"

\* when the run began the install directory of n told the declared version
InstalledAtDeclared(n) ==
    /\ Exists(before.spago_dir, n)
    /\ VersionFile(n) \in DOMAIN before.spago_dir[n]
    /\ before.spago_dir[n][VersionFile(n)] = package_set[n].version

\* the cached directories of n
CachedDirsOf(cd, n) == [q \in {x \in DOMAIN cd : x[1] = n} |-> cd[q]]

\* C12: the task of a package whose install directory holds the declared
\* version ends with nothing installed; it fetches nothing, and the install
\* directory, the cached directories and the index entry of the package
\* stay as they were when the run began.
C12_AlreadyInstalledNoop ==
    \A n \in Range(tasks) :
        (package_set[n].kind # "Local" /\ InstalledAtDeclared(n))
            => /\ pc[n] \in {"start", "done"}
               /\ pc[n] = "done" => outcome[n] = Nothing
               /\ n \notin fetches
               /\ Exists(spago_dir, n)
               /\ spago_dir[n] = before.spago_dir[n]
               /\ CachedDirsOf(cache_dirs, n) = CachedDirsOf(before.cache_dirs, n)
               /\ EntryIn(index, n) = EntryIn(before.index, n)

\* the Registry package was installed and cached, the Remote one was fetched
C12_Witness ==
    /\ "b" \in Range(tasks)
    /\ InstalledAtDeclared("b")
    /\ CompatibleEntry("b")
    /\ pc["b"] = "done"
    /\ outcome["b"] = Nothing
    /\ outcome["a"] = Installed
    /\ "a" \in fetches

\* when the run began the install directory of n told another version than
\* the declared one
MismatchAtStart(n) ==
    /\ Exists(before.spago_dir, n)
    /\ VersionFile(n) \in DOMAIN before.spago_dir[n]
    /\ before.spago_dir[n][VersionFile(n)] # package_set[n].version

\* C13: the task of a package whose install directory holds another version
\* does not end with nothing installed, fails only after going to the
\* origin, and when it ends as installed the directory holds the sources of
\* the declared version and passes the already-installed check.
C13_MismatchReinstalls ==
    \A n \in Range(tasks) :
        (/\ package_set[n].kind # "Local"
         /\ MismatchAtStart(n)
         /\ pc[n] = "done")
            => /\ outcome[n] # Nothing
               /\ outcome[n].kind = "error" => n \in fetches
               /\ outcome[n].kind = "installed" =>
                     /\ Exists(spago_dir, n)
                     /\ "src/Main" \in DOMAIN spago_dir[n]
                     /\ spago_dir[n]["src/Main"] = package_set[n].version
                     /\ version_matches(package_set[n], spago_dir[n])
                           = [err |-> NoErr, matches |-> TRUE]

\* C14: when a task that went to the origin ends as installed, every
\* top-level entry of the install directory is the source directory, a
\* readme or a package manifest.
C14_PrunedAfterFetch ==
    \A n \in Range(tasks) :
        (n \in fetches /\ pc[n] = "done" /\ outcome[n] = Installed)
            => \A p \in DOMAIN spago_dir[n] :
                  should_keep(Top(p)) \/ Top(p) = "purs.json"

\* C15: when a task that went to the origin has ended as installed, the
\* index has an entry of the package with the declared version and the
\* running key, and the cached directory of that entry holds the tree of the
\* pruned install directory.
C15_CachedAfterFetch ==
    \A n \in Range(tasks) :
        (n \in fetches /\ pc[n] = "done" /\ outcome[n] = Installed)
            => \E e \in EntryIn(index, n) :
                  /\ e.version = package_set[n].version
                  /\ e.key = CACHE_KEY
                  /\ Exists(cache_dirs, e.cached_path)
                  /\ cache_dirs[e.cached_path] = prune_package(spago_dir[n])

\* C16: when the task of a Remote package that had no install directory
\* fails after going to the origin, there is no install directory of the
\* package.
C16_NoDestAfterFailedClone ==
    \A n \in Range(tasks) :
        (/\ package_set[n].kind = "Remote"
         /\ ~Exists(before.spago_dir, n)
         /\ n \in fetches
         /\ pc[n] = "done"
         /\ outcome[n].kind = "error")
            => ~Exists(spago_dir, n)

\* the outcomes of the archive that are format errors
FormatAnswers == {"empty", "several", "file"}

FormatErrors ==
    {"Expected exactly one top-level directory",
     "Top-level entry is not a directory"}

\* C17: the download step of a Registry task goes on to cache_package only
\* when the archive unpacked to exactly one top-level entry that is a
\* directory; with no entry, several entries or a single file the task ends
\* with a format error, and the step leaves the cached directories and the
\* index as they were.
C17_ArchiveFormat ==
    [][\A n \in Present : \A answer \in ArchiveAnswers :
          (package_set[n].kind = "Registry" /\ TaskFetch(n, answer)) =>
              /\ pc'[n] = "load" => answer = "ok"
              /\ answer \in FormatAnswers =>
                    /\ pc'[n] = "done"
                    /\ outcome'[n].kind = "error"
                    /\ outcome'[n].err[1] \in FormatErrors
                    /\ cache_dirs' = cache_dirs
                    /\ index' = index]_vars

\* a Registry task failed on the format of its archive while the Remote
\* sibling was fetched and cached
C17_Witness ==
    /\ pc["b"] = "done"
    /\ outcome["b"].kind = "error"
    /\ outcome["b"].err[1] \in FormatErrors
    /\ outcome["a"] = Installed
    /\ "a" \in fetches
    /\ CachedDirsOf(cache_dirs, "b") = CachedDirsOf(before.cache_dirs, "b")

\* C18: the task of a Local package ends with nothing installed; it makes no
\* install directory, fetches nothing and leaves the cached directories and
\* the index entry of the package alone.  The dependencies of a Local
\* package are followed all the same: they are in the closure with it and
\* in the transitive dependencies of every package that reaches it, and a
\* chain is found from a package exactly when a cycle can be reached from
\* it, whatever the kinds of the packages on the way.
C18_LocalNoop ==
    /\ \A n \in Range(tasks) :
          package_set[n].kind = "Local" =>
              /\ pc[n] \in {"start", "done"}
              /\ pc[n] = "done" => outcome[n] = Nothing
              /\ n \notin fetches
              /\ ~Exists(spago_dir, n)
              /\ CachedDirsOf(cache_dirs, n) = CachedDirsOf(before.cache_dirs, n)
              /\ EntryIn(index, n) = EntryIn(before.index, n)
    /\ (run > 0 /\ closure.err = NoErr) =>
          \A n \in closure.all_packages :
             package_set[n].kind = "Local" =>
                 Range(package_set[n].dependencies) \subseteq closure.all_packages
    /\ \A r \in Present :
          LET found == Range(get_transitive_dependencies(package_set, r).result)
          IN  \A n \in found \cup {r} :
                 package_set[n].kind = "Local" =>
                     (Range(package_set[n].dependencies) \cap Present) \ {r}
                         \subseteq found
    /\ \A r \in Present :
          find_circular_dependency_chain(package_set, r) # {}
             <=> \E n \in Expand({r}, package_set) \cap Present :
                    n \in Expand(Range(package_set[n].dependencies),
                                 package_set)

\* the Registry package is in the batch only through the Local package,
\* whose task has ended, it depends on the Local package in turn, and it was
\* fetched
C18_Witness ==
    /\ ~workspace_root
    /\ package_set["a"].dependencies = <<"c">>
    /\ find_circular_dependency_chain(package_set, "a") = {<<"c", "b", "c">>}
    /\ Range(tasks) = Present
    /\ pc["c"] = "done"
    /\ outcome["c"] = Nothing
    /\ "b" \in fetches
    /\ Range(get_transitive_dependencies(package_set, "a").result) = {"b", "c"}

\* C19: after a copy_from_cache that returned without error, the destination
\* holds the tree of the cached directory of the entry and nothing else:
\* no file that only the destination had before the call is left.
C19_CopyReplaces ==
    (op.kind = "copy_from_cache" /\ op.err = NoErr) =>
        /\ Exists(spago_dir, op.name)
        /\ \E q \in get_cached_path(index, op.name, op.version) :
              spago_dir[op.name] = cache_dirs[q]
        /\ \A t \in op.prior :
              \A p \in DOMAIN t \ DOMAIN cache_dirs[CachedName(op.name, op.version)] :
                 p \notin DOMAIN spago_dir[op.name]

\* the destination held a file the cached directory has not
C19_Witness ==
    /\ op.kind = "copy_from_cache"
    /\ op.err = NoErr
    /\ \E t \in op.prior :
          DOMAIN t \ DOMAIN cache_dirs[CachedName(op.name, op.version)] # {}

\* C20: after cleanup_unused_packages, an install directory named by a
\* package and present before the call is gone exactly when the name is not
\* reached from the direct dependencies of the manifest nor, at a workspace
\* root, from the workspace members and their dependencies.
C20_CleanupPrecise ==
    op.kind = "cleanup" =>
        \A d \in DOMAIN before.spago_dir \cap Present :
            d \notin DOMAIN spago_dir
               <=> d \notin Expand(DirectNames, package_set)

\* C21: cleanup_unused_packages leaves the cached directories and the index
\* as they were; when the manifest has lost its only dependency, the install
\* directories of that package and of its dependency are removed while the
\* index still lists both at their version, with the cached trees in place.
C21_CleanupKeepsCache ==
    op.kind = "cleanup" =>
        /\ cache_dirs = before.cache_dirs
        /\ index = before.index
        /\ (/\ ~workspace_root
            /\ direct = <<>>
            /\ {"a", "b"} \subseteq DOMAIN before.spago_dir) =>
               /\ {"a", "b"} \subseteq op.removed
               /\ DOMAIN spago_dir \cap {"a", "b"} = {}
               /\ \A n \in {"a", "b"} :
                     \E e \in EntryIn(index, n) :
                        /\ e.version = Declared
                        /\ e.cached_path = CachedName(n, Declared)
                        /\ Exists(cache_dirs, e.cached_path)
                        /\ cache_dirs[e.cached_path] = InstalledTree(n, Declared)

\* the dependency that was removed from the manifest depended on the other
\* package; both were installed and are gone
C21_Witness ==
    /\ op.kind = "cleanup"
    /\ ~workspace_root
    /\ direct = <<>>
    /\ package_set["a"].dependencies = <<"b">>
    /\ package_set["b"].dependencies = <<>>
    /\ DOMAIN before.spago_dir = {"a", "b"}
    /\ op.removed = {"a", "b"}
    /\ DOMAIN load_index(index) = {"a", "b"}

\* a dependency cycle can be reached from r
CycleReachable(ps, r) ==
    \E n \in Expand({r}, ps) \cap DOMAIN ps :
        n \in Expand(Range(ps[n].dependencies), ps)

\* the three packages depend on one another in a ring
Ring ==
    /\ package_set["a"].dependencies = <<"b">>
    /\ package_set["b"].dependencies = <<"c">>
    /\ package_set["c"].dependencies = <<"a">>

\* C22: the scan from a local package comes to an end on every package set,
\* having pushed no more names on its path than there are names; it gives a
\* chain exactly when a dependency cycle can be reached from the
\* package, and on the ring a -> b -> c -> a of local packages the members
\* of the chain are a, b and c.
C22_CycleDetection ==
    /\ \A l \in local_packages(package_set) :
          Len(ChainScan(package_set, l).walked)
              <= Cardinality(QueryNames \cup {Missing})
    /\ op.kind = "find_circular_dependency_chain" =>
          /\ op.cycle # {} <=> CycleReachable(package_set, op.name)
          /\ Ring => \E chain \in op.cycle : Range(chain) = {"a", "b", "c"}

\* the scan of the ring of three local packages
C22_Witness ==
    /\ op.kind = "find_circular_dependency_chain"
    /\ Ring
    /\ local_packages(package_set) = {"a", "b", "c"}
    /\ op.name = "b"
    /\ op.cycle = {<<"b", "c", "a", "b">>}

\* the number of dependency edges on a shortest way from the names of the
\* frontier to n through packages of the set, counted from k; -1 if none
RECURSIVE DistanceFrom(_, _, _, _, _)
DistanceFrom(ps, frontier, seen, k, n) ==
    IF n \in frontier THEN k
    ELSE IF frontier = {} THEN -1
    ELSE LET next == (UNION {Range(ps[x].dependencies) : x \in frontier}
                         \cap DOMAIN ps) \ (seen \cup frontier)
         IN  DistanceFrom(ps, next, seen \cup frontier, k + 1, n)

Distance(ps, root, n) == DistanceFrom(ps, {root}, {}, 0, n)

\* C23: for a name of the set, get_transitive_dependencies gives without
\* error and without repetition the packages that can be reached from the
\* name through the lists of packages of the set, the name itself left out,
\* and a package nearer to the name never comes after one further away.
C23_TransitiveBreadthFirst ==
    (op.kind = "get_transitive_dependencies" /\ op.name \in DOMAIN package_set)
        => /\ op.err = NoErr
           /\ \A i, j \in 1..Len(op.result) :
                 i < j =>
                    /\ op.result[i] # op.result[j]
                    /\ Distance(package_set, op.name, op.result[i])
                          <= Distance(package_set, op.name, op.result[j])
           /\ Range(op.result)
                 = (Expand({op.name}, package_set) \cap DOMAIN package_set)
                      \ {op.name}

\* the name lies on a cycle, a list on the way names an absent package, and
\* the last package found is two edges away
C23_Witness ==
    /\ op.kind = "get_transitive_dependencies"
    /\ op.name = "a"
    /\ op.result = <<"b", "c", "d">>
    /\ Missing \in Range(package_set["b"].dependencies)
    /\ package_set["d"].dependencies = <<"a">>
    /\ Distance(package_set, "a", "d") = 2

\* C24: get_dependencies and get_transitive_dependencies of a name without a
\* package fail with the not-found error of that name; get_dependencies of
\* a name of the set gives, without error and in the order of the list, the
\* listed names that have a package, and none of the others.
C24_NotFoundAndSkips ==
    /\ (/\ op.kind \in {"get_dependencies", "get_transitive_dependencies"}
        /\ op.name \notin DOMAIN package_set)
          => /\ op.err = <<"not found in package set", op.name>>
             /\ op.result = <<>>
    /\ (op.kind = "get_dependencies" /\ op.name \in DOMAIN package_set)
          => LET deps == package_set[op.name].dependencies
             IN  /\ op.err = NoErr
                 /\ Range(op.result) = Range(deps) \cap DOMAIN package_set
                 /\ \A i, j \in 1..Len(op.result) :
                       i < j => Position(deps, op.result[i])
                                   < Position(deps, op.result[j])

\* a list whose first name has no package and whose second has one
C24_Witness ==
    /\ op.kind = "get_dependencies"
    /\ op.name = "a"
    /\ package_set["a"].dependencies = <<Missing, "b">>
    /\ op.err = NoErr
    /\ op.result = <<"b">>

\* C25: at a workspace root a closure walk that succeeds holds, besides
\* what is reached from the manifest's own dependencies, every name reached
\* from the dependency list of every Local package of the set.
C25_WorkspaceRootClosure ==
    (result.status = "walked" /\ workspace_root /\ closure.err = NoErr) =>
        /\ Expand(Range(direct), package_set) \subseteq closure.all_packages
        /\ \A l \in local_packages(package_set) :
              Expand(Range(package_set[l].dependencies), package_set)
                  \subseteq closure.all_packages

\* the workspace member needs a package the root manifest does not reach
C25_Witness ==
    /\ result.status = "walked"
    /\ workspace_root
    /\ closure.err = NoErr
    /\ direct = <<"a">>
    /\ package_set["a"].dependencies = <<>>
    /\ package_set["c"].dependencies = <<"b">>
    /\ "b" \in closure.all_packages

\* the task of n went to the origin and ended as installed, so that its
\* cache_package returned
FetchedInstalled(n) ==
    /\ n \in Range(tasks)
    /\ n \in fetches
    /\ pc[n] = "done"
    /\ outcome[n] = Installed

\* the index holds the entry cache_package wrote for n
HasOwnEntry(n) ==
    \E e \in EntryIn(index, n) :
        e.version = package_set[n].version /\ e.key = CACHE_KEY

\* C26: the save of a task's cache_package writes the whole index from what
\* the task loaded earlier, with its own entry put in: the entry of every
\* other name is the one of that load, whatever the index holds by then.
\* The witness is a batch that returned Ok after both tasks cached their
\* package, with the entry of only one of them in the index.
C26_UnsynchronisedSave ==
    [][\A n \in Present :
          (pc[n] = "save" /\ pc'[n] = "done") =>
              /\ outcome'[n] = Installed
              /\ HasOwnEntry(n)'
              /\ \A x \in Present \ {n} :
                    EntryIn(index', x)
                       = (IF x \in DOMAIN loaded[n]
                          THEN Some(loaded[n][x]) ELSE None)]_vars

\* both tasks fetched and cached their package, both returned success, and
\* the index lists one of the two packages
C26_Witness ==
    /\ result.status = "Ok"
    /\ FetchedInstalled("a")
    /\ FetchedInstalled("b")
    /\ Exists(cache_dirs, CachedName("a", Declared))
    /\ Exists(cache_dirs, CachedName("b", Declared))
    /\ HasOwnEntry("a") # HasOwnEntry("b")

\* no dependency cycle can be reached from the names of S
AcyclicFrom(S, ps) == \A r \in S : ~CycleReachable(ps, r)

NoRepetition(s) == \A i, j \in 1..Len(s) : i < j => s[i] # s[j]

\* C27: in a closure walk over a graph without cycle, every name of the
\* dependency list of an inserted name was inserted before it; every name
\* was marked once, and a name that is not a direct dependency was marked
\* after a package that lists it.
C27_DepsInsertedFirst ==
    (result.status = "walked" /\ AcyclicFrom(DirectNames, package_set)) =>
        /\ \A i \in 1..Len(closure.inserted) :
              \A d \in Range(package_set[closure.inserted[i]].dependencies) :
                 \E j \in 1..(i - 1) : closure.inserted[j] = d
        /\ NoRepetition(closure.visited)
        /\ \A j \in 1..Len(closure.visited) :
              \/ closure.visited[j] \in DirectNames
              \/ \E i \in 1..(j - 1) :
                    /\ closure.visited[i] \in DOMAIN package_set
                    /\ closure.visited[j]
                          \in Range(package_set[closure.visited[i]].dependencies)

\* a chain of three packages: marked from the top, inserted from the bottom
C27_Witness ==
    /\ result.status = "walked"
    /\ direct = <<"a">>
    /\ closure.visited = <<"a", "b", "c">>
    /\ closure.inserted = <<"c", "b", "a">>

\* C28: the closure walk comes to an end on every package set, with or
\* without cycles: no name is marked twice, so no dependency list is walked
\* twice, and the names marked are the names processed.
C28_WalkTerminates ==
    result.status = "walked" =>
        /\ NoRepetition(closure.visited)
        /\ Range(closure.visited) = closure.processed
        /\ Len(closure.visited) <= Cardinality(Names)

\* a walk over a ring of three packages that reached every one of them
C28_Witness ==
    /\ result.status = "walked"
    /\ closure.err = NoErr
    /\ direct = <<"a">>
    /\ package_set["a"].dependencies = <<"b">>
    /\ package_set["b"].dependencies = <<"c">>
    /\ package_set["c"].dependencies = <<"a">>
    /\ closure.all_packages = Present
    /\ closure.visited = <<"a", "b", "c">>

\* C29: in check_circular_dependencies, a name that an earlier scan recorded
\* as explored is not pushed on the path of a later scan.
C29_MemoKeptAcrossScans ==
    op.kind = "check_circular_dependencies" =>
        \A i, j \in 1..Len(op.scans) :
            i < j =>
               \A n \in op.scans[i].visited :
                  n \notin Range(op.scans[j].walked)

\* C30: a chain that the scan reports begins and ends with the same name,
\* every name of it but the last lists the next one among its dependencies,
\* no name but that first one occurs twice, and the names stand in the
\* order in which the scan pushed them on its path.
C30_ChainWellFormed ==
    op.kind = "find_circular_dependency_chain" =>
        \A chain \in op.cycle :
            LET k == Len(chain)
                body == SubSeq(chain, 1, k - 1)
            IN  /\ k >= 2
                /\ chain[1] = chain[k]
                /\ NoRepetition(body)
                /\ \A i \in 1..(k - 1) :
                      /\ chain[i] \in DOMAIN package_set
                      /\ chain[i + 1]
                            \in Range(package_set[chain[i]].dependencies)
                /\ \A i, j \in 1..(k - 1) :
                      i < j => /\ body[i] \in Range(op.walked)
                               /\ body[j] \in Range(op.walked)
                               /\ Position(op.walked, body[i])
                                     < Position(op.walked, body[j])

\* the scan from one package found a cycle of two others
C30_Witness ==
    /\ op.kind = "find_circular_dependency_chain"
    /\ op.name = "b"
    /\ op.walked = <<"b", "a", "c">>
    /\ op.cycle = {<<"a", "c", "a">>}

(***************************************************************************)
(* Claims C31-C38.                                                         *)
(***************************************************************************)
\* the required set of cleanup.rs:21-33 for a list of direct names
RequiredBy(names, ps) == CleanupCollectEach(names, ps, EmptyWalk).all_packages

\* C31: whenever the closure walk of the install manager succeeds on a
\* package set and a list of direct names, the walk of cleanup.rs over the
\* same set and list yields exactly the names the manager collected.
C31_SameRequiredSet ==
    (result.status = "walked" /\ closure.err = NoErr)
        => RequiredBy(direct_package_dependencies(package_set, direct,
                                                  workspace_root),
                      package_set) = closure.all_packages

\* a successful walk that collected a name only a dependency list names
C31_Witness ==
    /\ result.status = "walked"
    /\ closure.err = NoErr
    /\ closure.all_packages \ Range(direct) # {}
    /\ RequiredBy(direct, package_set) = closure.all_packages

\* a package reached from the names of S lists a name the set does not hold
ListsAbsent(S, ps) ==
    \E n \in Expand(S, ps) \cap DOMAIN ps :
        Range(ps[n].dependencies) \ DOMAIN ps # {}

\* C32: validate_transitive_deps returns an invalid result with a
\* MissingDependency error whenever a package reachable from a direct
\* dependency lists a dependency the package set does not hold, and a valid
\* result when every transitive dependency is present.
C32_MissingReported ==
    op.kind = "validate_transitive_deps" =>
        /\ ListsAbsent(Range(op.dependencies), package_set)
               => (~op.is_valid /\ op.errors # <<>>)
        /\ ~ListsAbsent(Range(op.dependencies), package_set) => op.is_valid

\* every entry of the index file has its cached directory on disk
IndexBacked(file, cd) ==
    \A n \in DOMAIN load_index(file) :
        Exists(cd, load_index(file)[n].cached_path)

\* C33: through cache_package calls, successful or failed, and clear_all
\* calls of one process, every index entry keeps pointing to a directory
\* that exists and holds the whole tree given to the last successful
\* cache_package of its name: a call that returns an error leaves the
\* directories of the entries as they were, and a new entry is written only
\* with its complete copy in place.
C33_IndexBacked ==
    [][(/\ op'.kind \in {"cache_package", "cache_package_failed", "clear_all"}
        /\ IndexBacked(index, cache_dirs))
       => /\ IndexBacked(index', cache_dirs')
          /\ \A n \in DOMAIN load_index(index') :
                LET e == load_index(index')[n]
                IN  IF op'.kind = "cache_package" /\ op'.name = n
                    THEN cache_dirs'[e.cached_path] = op'.src
                    ELSE /\ n \in DOMAIN load_index(index)
                         /\ load_index(index)[n] = e
                         /\ cache_dirs'[e.cached_path]
                               = cache_dirs[e.cached_path]]_vars

\* C34: when the task of a Registry package that had no install directory
\* fails after going to the registry (HTTP error or an archive that does not
\* unpack to one directory), there is no install directory of the package,
\* so that the next run meets the cache check and the download again.
C34_NoDestAfterFailedArchive ==
    \A n \in Range(tasks) :
        (/\ package_set[n].kind = "Registry"
         /\ ~Exists(before.spago_dir, n)
         /\ n \in fetches
         /\ pc[n] = "done"
         /\ outcome[n].kind = "error")
            => ~Exists(spago_dir, n)

\* C35: the index holds one entry for a name.  cache_package(name, v, ...)
\* leaves the name cached at v alone: for every other version w,
\* is_cached(name, w) is false and get_cached_path(name, w) is none, while a
\* directory cached for (name, w) stays on disk as it was.
C35_OneEntryPerName ==
    [][\A n \in CacheNames, v \in Versions, src \in SourceTrees :
          CachePackage(n, v, src) =>
              \A w \in Versions \ {v} :
                  /\ ~is_cached(index', n, w)
                  /\ get_cached_path(index', n, w) = None
                  /\ Exists(cache_dirs, CachedName(n, w)) =>
                        /\ Exists(cache_dirs', CachedName(n, w))
                        /\ cache_dirs'[CachedName(n, w)]
                              = cache_dirs[CachedName(n, w)]]_vars

\* b was cached at the declared version from a pruned clone and then at the
\* other version: the first directory is on disk, its version is a miss
C35_Witness ==
    /\ op.kind = "cache_package"
    /\ op.name = "b"
    /\ op.version = Other
    /\ Exists(cache_dirs, CachedName("b", Declared))
    /\ cache_dirs[CachedName("b", Declared)] = prune_package(GitTree(Other))
    /\ ~is_cached(index, "b", Declared)
    /\ get_cached_path(index, "b", Declared) = None
    /\ is_cached(index, "b", Other)

\* C36: an index file that does not parse is read as an empty index and
\* raises no error: both lookups miss for every package and version, and a
\* successful cache_package writes a parsable index that holds the entry of
\* its own package and no other.
C36_UnparsedIndexIsEmpty ==
    [][index.kind = "garbage" =>
          /\ \A n \in CacheNames, v \in Versions :
                Lookup(n, v) => (~op'.is_cached /\ op'.path = None)
          /\ \A n \in CacheNames, v \in Versions, src \in SourceTrees :
                CachePackage(n, v, src) =>
                    /\ index'.kind = "json"
                    /\ DOMAIN load_index(index') = {n}
                    /\ is_cached(index', n, v)]_vars

\* the first call found an unparsable index next to the cached directory of
\* a; it cached b, and the index now holds b alone
C36_Witness ==
    /\ calls = 1
    /\ before.index = Garbage
    /\ op.kind = "cache_package"
    /\ op.name = "b"
    /\ \E q \in DOMAIN cache_dirs : q[1] = "a"
    /\ DOMAIN load_index(index) = {"b"}

\* C37: a copy_from_cache(name, v, dest) that finds no compatible index
\* entry (none for the name, one at another version, or one written under
\* another key) returns the not-in-cache error and leaves the install
\* directories, dest among them, exactly as they were.
C37_MissLeavesDest ==
    [][\A n \in CacheNames, v \in Versions :
          (CopyFromCache(n, v) /\ get_cached_path(index, n, v) = None) =>
              /\ op'.err = ErrNotInCache(n, v)
              /\ spago_dir' = spago_dir]_vars

\* a is installed and cached at the other version; the copy of the declared
\* version missed and the installed tree is still there
C37_Witness ==
    /\ op.kind = "copy_from_cache"
    /\ op.name = "a"
    /\ op.version = Declared
    /\ op.err = ErrNotInCache("a", Declared)
    /\ op.prior = Some(InstalledTree("a", Other))
    /\ Exists(spago_dir, "a")
    /\ spago_dir["a"] = InstalledTree("a", Other)

====
